---- MODULE Spec2Model ----
(***************************************************************************)
(* LectureController (src/unnamed/part_000) and the response helpers       *)
(* (src/utlis/responses.ts) as a state machine over the data store.        *)
(*                                                                         *)
(* Spec      : requests served one at a time, one action per handler; the  *)
(*             action is the whole handler, try block and catch block.     *)
(* SpecConc  : deleteLecture requests interleaved at their awaits.         *)
(***************************************************************************)
EXTENDS Integers, Sequences, FiniteSets, TLC

\* ------------------------------------------------------------------ bounds
MaxLecture  == 2   \* lecture ids 1..MaxLecture
MaxLink     == 1   \* link ids 1..MaxLink (autoincrement stops there)
MaxProc     == 2   \* concurrent requests in SpecConc

Years      == {1, 2}
LectureIds == 1..MaxLecture
LinkIds    == 1..MaxLink
ModuleIds  == {1, 2}
Procs      == 1..MaxProc

\* ------------------------------------------------------- JavaScript values
\* `x?.yearId` is undefined when x is null; a stored yearId may be null.
\* Both are different from every year and from each other under !==.
NullYear      == 0
UndefinedYear == -1

Admin   == "Admin"
Student == "Student"

\* AuthController.user(req, res): a user record or null.
NullUser == [present |-> FALSE, role |-> "none", yearId |-> UndefinedYear]
Users    == [present : {TRUE}, role : {Admin, Student}, yearId : Years]
Callers  == Users \cup {NullUser}

\* user?.yearId
userYearId(user) == IF user.present THEN user.yearId ELSE UndefinedYear

\* module?.yearId
moduleYearId(module) == IF module.present THEN module.yearId ELSE UndefinedYear

\* ------------------------------------------------------------------- store
NoModule  == [present |-> FALSE, yearId |-> UndefinedYear]
NoLecture == [present |-> FALSE, id |-> 0, moduleId |-> 0, content |-> 0]
NoLink    == [present |-> FALSE, id |-> 0, lectureId |-> 0, content |-> 0]

\* lecture l belongs to a subject whose moduleId is ModuleOf(l)
ModuleOf(l) == ((l - 1) % 2) + 1

VARIABLES
    modules,      \* db.module       : ModuleIds  -> module row or NoModule
    lectureData,  \* db.lectureData  : LectureIds -> lecture row or NoLecture
    lectureLinks, \* db.lectureLinks : LinkIds    -> link row or NoLink
    nextLinkId,   \* autoincrement of db.lectureLinks
    last,         \* Spec: the request being answered and what it did
    procs         \* SpecConc: the requests in flight

vars == <<modules, lectureData, lectureLinks, nextLinkId, last, procs>>


\* --------------------------------------------------------------- responses
\* res.status(status).json({ message, status })
send(message, status) == [http |-> status, status |-> status, message |-> message]

unauthorized(message) == [http |-> 401, status |-> 401, message |-> message]

notFound(message) == [http |-> 404, status |-> 404, message |-> message]

badRequest(message) == [http |-> 500, status |-> 500, message |-> message]

\* validationErrors is imported by the controller; its definition is not in
\* the sources at hand.  Modelled as the envelope of a validation error.
validationErrors == [http |-> 422, status |-> 422, message |-> "Validation errors"]

\* the catch block of every handler
internalError == [http |-> 500, status |-> 500, message |-> "Error - Something Went Wrong."]

\* ------------------------------------------------------ store calls by name
FindLecture == "lectureData.findUnique"
FindModule  == "module.findUnique"
FindLink    == "lectureLinks.findUnique"
FindLinks   == "lectureLinks.findMany"
UpdLecture  == "lectureData.update"
DelLecture  == "lectureData.delete"
CreLink     == "lectureLinks.create"
UpdLink     == "lectureLinks.update"
DelLink     == "lectureLinks.delete"

MutatingCalls == {UpdLecture, DelLecture, CreLink, UpdLink, DelLink}

\* what a handler hands to send() as data, and the write it got the store to do
NoData == [kind |-> "none", id |-> 0]
Data(kind, id) == [kind |-> kind, id |-> id]
NoOp == [kind |-> "none", id |-> 0, lectureId |-> 0, data |-> 0]
Op(kind, id, lectureId, data) == [kind |-> kind, id |-> id, lectureId |-> lectureId, data |-> data]

\* the try block ended by `return <response>`
Return(r, payload, calls, op) ==
    [threw |-> FALSE, sent |-> <<r>>, payload |-> payload, calls |-> calls, op |-> op]

\* the try block left by an exception of the store call issued last
Throw(calls) ==
    [threw |-> TRUE, sent |-> <<>>, payload |-> NoData, calls |-> calls, op |-> NoOp]

\* a catch block that lets the exception go on (not what the code does)
catchRethrow(t) ==
    [escaped |-> t.threw, sent |-> t.sent, payload |-> t.payload,
     calls |-> t.calls, op |-> t.op]

\* try { ... } catch (errorObject) { return res.status(500).json({...}) }
catch(t) ==
    [escaped |-> FALSE,
     sent    |-> IF t.threw THEN t.sent \o <<internalError>> ELSE t.sent,
     payload |-> t.payload, calls |-> t.calls, op |-> t.op]

\* db.lectureData.findUnique({ where: { id }, include: { subject: true } })
findLecture(ld, id) == IF id \in DOMAIN ld THEN ld[id] ELSE NoLecture

\* db.lectureLinks.findUnique({ where: { id } })
findLink(ll, id) == IF id \in DOMAIN ll THEN ll[id] ELSE NoLink

\* db.module.findUnique({ where: { id } })
findModule(id) == IF id \in DOMAIN modules THEN modules[id] ELSE NoModule


\* ---------------------------------------------------------------- handlers
\* A request: the caller AuthController.user resolves, the ids
\* parameterExists yields (0: falsy, the parameter is missing or invalid),
\* whether safeParse accepts the body, the parsed data, and the store call
\* of this request that throws (0: none).

\* a role check that forgets the role (not what the code does)
notAdminNullOnly(user) == ~user.present

\* !user || user.role !== UserRole.Admin
notAdmin(user) == ~user.present \/ user.role # Admin

\* an ownership check that lets every caller through (not what the code does)
yearMismatchNever(user, module) == FALSE

\* user?.yearId !== module?.yearId
yearMismatch(user, module) == userYearId(user) # moduleYearId(module)

getBody(req) ==
    LET user      == req.user
        lectureId == req.lectureId
    IN  IF lectureId = 0 THEN Return(badRequest("Invalid lectureId"), NoData, <<>>, NoOp)
        ELSE IF req.fault = 1 THEN Throw(<<FindLecture>>)
        ELSE LET lecture == findLecture(lectureData, lectureId) IN
        IF ~lecture.present
        THEN Return(notFound("Lecture doesn't exist."), NoData, <<FindLecture>>, NoOp)
        ELSE IF req.fault = 2 THEN Throw(<<FindLecture, FindModule>>)
        ELSE LET module == findModule(lecture.moduleId) IN
        IF yearMismatch(user, module)
        THEN Return(unauthorized("Unauthorized"), NoData, <<FindLecture, FindModule>>, NoOp)
        ELSE Return(send("lectureId - Data", 200), Data("lecture", lecture.id),
                    <<FindLecture, FindModule>>, NoOp)

\* updateLecture with the parameter validated before the role is checked
\* (not what the code does)
updateLectureBodyParamFirst(req) ==
    LET user      == req.user
        lectureId == req.lectureId
    IN  IF lectureId = 0 THEN Return(badRequest("Invalid lectureId"), NoData, <<>>, NoOp)
        ELSE IF notAdmin(user)
        THEN Return(unauthorized("Unauthorized cannot update a lecture."), NoData, <<>>, NoOp)
        ELSE LET lecture == findLecture(lectureData, lectureId) IN
        IF ~lecture.present
        THEN Return(notFound("Lecture doesn't exist."), NoData, <<FindLecture>>, NoOp)
        ELSE LET module == findModule(lecture.moduleId) IN
        IF yearMismatch(user, module)
        THEN Return(unauthorized("Unauthorized"), NoData, <<FindLecture, FindModule>>, NoOp)
        ELSE IF ~req.bodyOk
        THEN Return(validationErrors, NoData, <<FindLecture, FindModule>>, NoOp)
        ELSE Return(send("Lecture has been updated", 200), Data("updatedLecture", lectureId),
                    <<FindLecture, FindModule, UpdLecture>>,
                    Op(UpdLecture, lectureId, lectureId, req.data))

updateLectureBody(req) ==
    LET user      == req.user
        lectureId == req.lectureId
    IN  IF notAdmin(user)
        THEN Return(unauthorized("Unauthorized cannot update a lecture."), NoData, <<>>, NoOp)
        ELSE IF lectureId = 0 THEN Return(badRequest("Invalid lectureId"), NoData, <<>>, NoOp)
        ELSE IF req.fault = 1 THEN Throw(<<FindLecture>>)
        ELSE LET lecture == findLecture(lectureData, lectureId) IN
        IF ~lecture.present
        THEN Return(notFound("Lecture doesn't exist."), NoData, <<FindLecture>>, NoOp)
        ELSE IF req.fault = 2 THEN Throw(<<FindLecture, FindModule>>)
        ELSE LET module == findModule(lecture.moduleId) IN
        IF yearMismatch(user, module)
        THEN Return(unauthorized("Unauthorized"), NoData, <<FindLecture, FindModule>>, NoOp)
        ELSE IF ~req.bodyOk
        THEN Return(validationErrors, NoData, <<FindLecture, FindModule>>, NoOp)
        ELSE IF req.fault = 3 THEN Throw(<<FindLecture, FindModule, UpdLecture>>)
        ELSE Return(send("Lecture has been updated", 200), Data("updatedLecture", lectureId),
                    <<FindLecture, FindModule, UpdLecture>>,
                    Op(UpdLecture, lectureId, lectureId, req.data))

\* deleteLecture with the delete issued before the ownership check
\* (not what the code does)
deleteLectureBodyEager(req) ==
    LET user      == req.user
        lectureId == req.lectureId
    IN  IF notAdmin(user)
        THEN Return(unauthorized("Unauthorized cannot delete a lecture."), NoData, <<>>, NoOp)
        ELSE IF lectureId = 0 THEN Return(badRequest("Invalid lectureId"), NoData, <<>>, NoOp)
        ELSE LET lecture == findLecture(lectureData, lectureId) IN
        IF ~lecture.present
        THEN Return(notFound("Lecture doesn't exist."), NoData, <<FindLecture>>, NoOp)
        ELSE LET module == findModule(lecture.moduleId) IN
        IF yearMismatch(user, module)
        THEN Return(unauthorized("Unauthorized"), NoData,
                    <<FindLecture, DelLecture, FindModule>>,
                    Op(DelLecture, lectureId, lectureId, 0))
        ELSE Return(send("Lecture has been deleted", 200), Data("deletedLecture", lectureId),
                    <<FindLecture, DelLecture, FindModule>>,
                    Op(DelLecture, lectureId, lectureId, 0))

deleteLectureBody(req) ==
    LET user      == req.user
        lectureId == req.lectureId
    IN  IF notAdmin(user)
        THEN Return(unauthorized("Unauthorized cannot delete a lecture."), NoData, <<>>, NoOp)
        ELSE IF lectureId = 0 THEN Return(badRequest("Invalid lectureId"), NoData, <<>>, NoOp)
        ELSE IF req.fault = 1 THEN Throw(<<FindLecture>>)
        ELSE LET lecture == findLecture(lectureData, lectureId) IN
        IF ~lecture.present
        THEN Return(notFound("Lecture doesn't exist."), NoData, <<FindLecture>>, NoOp)
        ELSE IF req.fault = 2 THEN Throw(<<FindLecture, FindModule>>)
        ELSE LET module == findModule(lecture.moduleId) IN
        IF yearMismatch(user, module)
        THEN Return(unauthorized("Unauthorized"), NoData, <<FindLecture, FindModule>>, NoOp)
        ELSE IF req.fault = 3 THEN Throw(<<FindLecture, FindModule, DelLecture>>)
        ELSE Return(send("Lecture has been deleted", 200), Data("deletedLecture", lectureId),
                    <<FindLecture, FindModule, DelLecture>>,
                    Op(DelLecture, lectureId, lectureId, 0))

getLinksBody(req) ==
    LET user      == req.user
        lectureId == req.lectureId
    IN  IF lectureId = 0 THEN Return(badRequest("Invalid lectureId"), NoData, <<>>, NoOp)
        ELSE IF req.fault = 1 THEN Throw(<<FindLecture>>)
        ELSE LET lecture == findLecture(lectureData, lectureId) IN
        IF ~lecture.present
        THEN Return(notFound("Lecture doesn't exist."), NoData, <<FindLecture>>, NoOp)
        ELSE IF req.fault = 2 THEN Throw(<<FindLecture, FindModule>>)
        ELSE LET module == findModule(lecture.moduleId) IN
        IF yearMismatch(user, module)
        THEN Return(unauthorized("Unauthorized"), NoData, <<FindLecture, FindModule>>, NoOp)
        ELSE IF req.fault = 3 THEN Throw(<<FindLecture, FindModule, FindLinks>>)
        ELSE Return(send("lectureId - Links", 200), Data("links", lecture.id),
                    <<FindLecture, FindModule, FindLinks>>, NoOp)

createLinkBody(req) ==
    LET user      == req.user
        lectureId == req.lectureId
    IN  IF notAdmin(user)
        THEN Return(unauthorized("Unauthorized cannot create a link."), NoData, <<>>, NoOp)
        ELSE IF lectureId = 0 THEN Return(badRequest("Invalid lectureId"), NoData, <<>>, NoOp)
        ELSE IF req.fault = 1 THEN Throw(<<FindLecture>>)
        ELSE LET lecture == findLecture(lectureData, lectureId) IN
        IF ~lecture.present
        THEN Return(notFound("Lecture doesn't exist."), NoData, <<FindLecture>>, NoOp)
        ELSE IF req.fault = 2 THEN Throw(<<FindLecture, FindModule>>)
        ELSE LET module == findModule(lecture.moduleId) IN
        IF yearMismatch(user, module)
        THEN Return(unauthorized("Unauthorized"), NoData, <<FindLecture, FindModule>>, NoOp)
        ELSE IF ~req.bodyOk
        THEN Return(validationErrors, NoData, <<FindLecture, FindModule>>, NoOp)
        ELSE IF req.fault = 3 THEN Throw(<<FindLecture, FindModule, CreLink>>)
        ELSE Return(send("Lecture Link has been created", 201), Data("createdLink", nextLinkId),
                    <<FindLecture, FindModule, CreLink>>,
                    Op(CreLink, nextLinkId, lecture.id, req.data))

updateLinkBody(req) ==
    LET user      == req.user
        lectureId == req.lectureId
        linkId    == req.linkId
    IN  IF notAdmin(user)
        THEN Return(unauthorized("Unauthorized cannot update a link."), NoData, <<>>, NoOp)
        ELSE IF lectureId = 0 THEN Return(badRequest("Invalid lectureId"), NoData, <<>>, NoOp)
        ELSE IF linkId = 0 THEN Return(badRequest("Invalid linkId"), NoData, <<>>, NoOp)
        ELSE IF req.fault = 1 THEN Throw(<<FindLecture>>)
        ELSE IF req.fault = 2 THEN Throw(<<FindLecture, FindLink>>)
        ELSE LET lecture == findLecture(lectureData, lectureId)
                 link    == findLink(lectureLinks, linkId) IN
        IF ~lecture.present
        THEN Return(notFound("Lecture doesn't exist."), NoData, <<FindLecture, FindLink>>, NoOp)
        ELSE IF ~link.present
        THEN Return(notFound("Link doesn't exist."), NoData, <<FindLecture, FindLink>>, NoOp)
        ELSE IF req.fault = 3 THEN Throw(<<FindLecture, FindLink, FindModule>>)
        ELSE LET module == findModule(lecture.moduleId) IN
        IF yearMismatch(user, module)
        THEN Return(unauthorized("Unauthorized"), NoData,
                    <<FindLecture, FindLink, FindModule>>, NoOp)
        ELSE IF ~req.bodyOk
        THEN Return(validationErrors, NoData, <<FindLecture, FindLink, FindModule>>, NoOp)
        ELSE IF req.fault = 4 THEN Throw(<<FindLecture, FindLink, FindModule, UpdLink>>)
        ELSE Return(send("Link has been updated", 200), Data("updatedLink", link.id),
                    <<FindLecture, FindLink, FindModule, UpdLink>>,
                    Op(UpdLink, link.id, link.lectureId, req.data))

deleteLinkBody(req) ==
    LET user      == req.user
        lectureId == req.lectureId
        linkId    == req.linkId
    IN  IF notAdmin(user)
        THEN Return(unauthorized("Unauthorized cannot delete a link."), NoData, <<>>, NoOp)
        ELSE IF lectureId = 0 THEN Return(badRequest("Invalid lectureId"), NoData, <<>>, NoOp)
        ELSE IF linkId = 0 THEN Return(badRequest("Invalid linkId"), NoData, <<>>, NoOp)
        ELSE IF req.fault = 1 THEN Throw(<<FindLecture>>)
        ELSE IF req.fault = 2 THEN Throw(<<FindLecture, FindLink>>)
        ELSE LET lecture == findLecture(lectureData, lectureId)
                 link    == findLink(lectureLinks, linkId) IN
        IF ~lecture.present
        THEN Return(notFound("Lecture doesn't exist."), NoData, <<FindLecture, FindLink>>, NoOp)
        ELSE IF ~link.present
        THEN Return(notFound("Link doesn't exist."), NoData, <<FindLecture, FindLink>>, NoOp)
        ELSE IF req.fault = 3 THEN Throw(<<FindLecture, FindLink, FindModule>>)
        ELSE LET module == findModule(lecture.moduleId) IN
        IF yearMismatch(user, module)
        THEN Return(unauthorized("Unauthorized"), NoData,
                    <<FindLecture, FindLink, FindModule>>, NoOp)
        ELSE IF req.fault = 4 THEN Throw(<<FindLecture, FindLink, FindModule, DelLink>>)
        ELSE Return(send("Link has been deleted", 200), Data("deletedLink", link.id),
                    <<FindLecture, FindLink, FindModule, DelLink>>,
                    Op(DelLink, link.id, link.lectureId, 0))


\* ------------------------------------------------------------ store writes
LinkRow(id, lectureId, content) ==
    [present |-> TRUE, id |-> id, lectureId |-> lectureId, content |-> content]

\* an update with no `where`: every lecture row is written
\* (not what the code does)
applyLectureDataAll(ld, op) ==
    CASE op.kind = UpdLecture -> [l \in DOMAIN ld |->
                                     IF ld[l].present
                                     THEN [ld[l] EXCEPT !.content = op.data] ELSE ld[l]]
      [] op.kind = DelLecture -> [ld EXCEPT ![op.id] = NoLecture]
      [] OTHER                -> ld

\* db.lectureData.update / db.lectureData.delete, by { where: { id } }
applyLectureData(ld, op) ==
    CASE op.kind = UpdLecture -> [ld EXCEPT ![op.id].content = op.data]
      [] op.kind = DelLecture -> [ld EXCEPT ![op.id] = NoLecture]
      [] OTHER                -> ld

\* db.lectureLinks.create / update / delete; the links of a deleted lecture
\* go with it (a link row always names an existing lecture)
applyLectureLinks(ll, op) ==
    CASE op.kind = CreLink    -> [ll EXCEPT ![op.id] = LinkRow(op.id, op.lectureId, op.data)]
      [] op.kind = UpdLink    -> [ll EXCEPT ![op.id].content = op.data]
      [] op.kind = DelLink    -> [ll EXCEPT ![op.id] = NoLink]
      [] op.kind = DelLecture -> [k \in DOMAIN ll |->
                                     IF ll[k].present /\ ll[k].lectureId = op.id
                                     THEN NoLink ELSE ll[k]]
      [] OTHER                -> ll

applyNextLinkId(n, op) == IF op.kind = CreLink THEN n + 1 ELSE n

\* --------------------------------------------------------------- Spec: Init
ModuleRows == {NoModule} \cup [present : {TRUE}, yearId : Years \cup {NullYear}]

NoRequest ==
    [handler |-> "none", user |-> NullUser, lectureId |-> 0, linkId |-> 0,
     bodyOk |-> TRUE, data |-> 0, fault |-> 0]

Request(handler, user, lectureId, linkId, bodyOk, data, fault) ==
    [handler |-> handler, user |-> user, lectureId |-> lectureId, linkId |-> linkId,
     bodyOk |-> bodyOk, data |-> data, fault |-> fault]

Idle ==
    [req |-> NoRequest, escaped |-> FALSE, sent |-> <<>>, payload |-> NoData,
     calls |-> <<>>, op |-> NoOp,
     pre |-> [lectureData |-> <<>>, lectureLinks |-> <<>>]]

NoProcs == [p \in Procs |-> 0]

\* Every lecture and no link yet; each module is any module row or missing.
InitStore ==
    /\ modules \in [ModuleIds -> ModuleRows]
    /\ lectureData = [l \in LectureIds |->
                         [present |-> TRUE, id |-> l, moduleId |-> ModuleOf(l), content |-> 0]]
    /\ lectureLinks = [k \in LinkIds |-> NoLink]
    /\ nextLinkId = 1

Init ==
    /\ InitStore
    /\ last = Idle
    /\ procs = NoProcs

\* ------------------------------------------------------------ Spec: actions
\* One request served from start to end: `body` is what its try block did.
\* The store call that fails, if any, is one the request issues.
Serve(req, body) ==
    \E tried \in {body} : \E out \in {catch(tried)} :
        /\ req.fault = 0 \/ tried.threw
        /\ last' = [req |-> req, escaped |-> out.escaped, sent |-> out.sent,
                    payload |-> out.payload, calls |-> out.calls, op |-> out.op,
                    pre |-> [lectureData |-> lectureData, lectureLinks |-> lectureLinks]]
        /\ lectureData'  = applyLectureData(lectureData, out.op)
        /\ lectureLinks' = applyLectureLinks(lectureLinks, out.op)
        /\ nextLinkId'   = applyNextLinkId(nextLinkId, out.op)
        /\ UNCHANGED <<modules, procs>>

\* The request-response cycle is over; the next request can be served.
endRequest ==
    /\ last # Idle
    /\ last' = Idle
    /\ UNCHANGED <<modules, lectureData, lectureLinks, nextLinkId, procs>>

ParamIds(S) == {0} \cup S
NewData == {1}

get ==
    /\ last = Idle
    /\ \E user \in Callers, lectureId \in ParamIds(LectureIds), fault \in 0..2 :
        LET req == Request("get", user, lectureId, 0, TRUE, 0, fault)
        IN  Serve(req, getBody(req))

updateLecture ==
    /\ last = Idle
    /\ \E user \in Callers, lectureId \in ParamIds(LectureIds), bodyOk \in BOOLEAN,
       data \in NewData, fault \in 0..3 :
        LET req == Request("updateLecture", user, lectureId, 0, bodyOk, data, fault)
        IN  Serve(req, updateLectureBody(req))

deleteLecture ==
    /\ last = Idle
    /\ \E user \in Callers, lectureId \in ParamIds(LectureIds), fault \in 0..3 :
        LET req == Request("deleteLecture", user, lectureId, 0, TRUE, 0, fault)
        IN  Serve(req, deleteLectureBody(req))

getLinks ==
    /\ last = Idle
    /\ \E user \in Callers, lectureId \in ParamIds(LectureIds), fault \in 0..3 :
        LET req == Request("getLinks", user, lectureId, 0, TRUE, 0, fault)
        IN  Serve(req, getLinksBody(req))

createLink ==
    /\ last = Idle
    /\ nextLinkId <= MaxLink
    /\ \E user \in Callers, lectureId \in ParamIds(LectureIds), bodyOk \in BOOLEAN,
          data \in NewData, fault \in 0..3 :
        LET req == Request("createLink", user, lectureId, 0, bodyOk, data, fault)
        IN  Serve(req, createLinkBody(req))

updateLink ==
    /\ last = Idle
    /\ \E user \in Callers, lectureId \in ParamIds(LectureIds), linkId \in ParamIds(LinkIds),
       bodyOk \in BOOLEAN, data \in NewData, fault \in 0..4 :
        LET req == Request("updateLink", user, lectureId, linkId, bodyOk, data, fault)
        IN  Serve(req, updateLinkBody(req))

deleteLink ==
    /\ last = Idle
    /\ \E user \in Callers, lectureId \in ParamIds(LectureIds), linkId \in ParamIds(LinkIds),
       fault \in 0..4 :
        LET req == Request("deleteLink", user, lectureId, linkId, TRUE, 0, fault)
        IN  Serve(req, deleteLinkBody(req))

Next ==
    \/ get
    \/ updateLecture
    \/ deleteLecture
    \/ getLinks
    \/ createLink
    \/ updateLink
    \/ deleteLink
    \/ endRequest

Spec == Init /\ [][Next]_vars


\* ------------------------------------------------- SpecConc: deleteLecture
\* deleteLecture requests in flight together.  A request runs from one await
\* to the next in one step; the store serves one call at a time.
ProcStart(user, lectureId) ==
    [pc |-> "auth", user |-> user, lectureId |-> lectureId, lecture |-> NoLecture,
     sent |-> <<>>, escaped |-> FALSE, spurious |-> FALSE, deleted |-> FALSE]

Admins == {u \in Users : u.role = Admin}

InitConc ==
    /\ modules = [m \in ModuleIds |-> [present |-> TRUE, yearId |-> m]]
    /\ lectureData = [l \in LectureIds |->
                         [present |-> TRUE, id |-> l, moduleId |-> ModuleOf(l), content |-> 0]]
    /\ lectureLinks = [k \in LinkIds |-> NoLink]
    /\ nextLinkId = 1
    /\ last = Idle
    /\ procs \in [Procs -> {ProcStart(u, l) : u \in Admins, l \in LectureIds}]

\* `return <response>` in request p
Respond(p, r, spurious) ==
    procs' = [procs EXCEPT ![p].pc = "done", ![p].sent = Append(procs[p].sent, r),
                           ![p].spurious = spurious]

\* the catch block in request p
Caught(p, spurious) ==
    \E out \in {catch(Throw(<<>>))} :
        procs' = [procs EXCEPT ![p].pc = "done", ![p].sent = procs[p].sent \o out.sent,
                               ![p].escaped = out.escaped, ![p].spurious = spurious]

\* a delete that succeeds on a row that is gone (not what the store does)
deleteThrowsNever(ld, id) == FALSE

\* db.lectureData.delete({ where: { id } }) throws when no row has that id
deleteThrows(ld, id) == ~findLecture(ld, id).present

\* const user = await AuthController.user(req, res); role check; parameter
authStep(p) ==
    /\ procs[p].pc = "auth"
    /\ IF notAdmin(procs[p].user)
       THEN Respond(p, unauthorized("Unauthorized cannot delete a lecture."), FALSE)
       ELSE IF procs[p].lectureId = 0
       THEN Respond(p, badRequest("Invalid lectureId"), FALSE)
       ELSE procs' = [procs EXCEPT ![p].pc = "findLecture"]
    /\ UNCHANGED <<modules, lectureData, lectureLinks, nextLinkId, last>>

\* const lecture = await db.lectureData.findUnique(...)
findLectureStep(p) ==
    /\ procs[p].pc = "findLecture"
    /\ \E throws \in BOOLEAN :
         IF throws THEN Caught(p, TRUE)
         ELSE LET lecture == findLecture(lectureData, procs[p].lectureId) IN
              IF ~lecture.present
              THEN Respond(p, notFound("Lecture doesn't exist."), FALSE)
              ELSE procs' = [procs EXCEPT ![p].pc = "findModule", ![p].lecture = lecture]
    /\ UNCHANGED <<modules, lectureData, lectureLinks, nextLinkId, last>>

\* const module = await db.module.findUnique(...); ownership check
findModuleStep(p) ==
    /\ procs[p].pc = "findModule"
    /\ \E throws \in BOOLEAN :
         IF throws THEN Caught(p, TRUE)
         ELSE LET module == findModule(procs[p].lecture.moduleId) IN
              IF yearMismatch(procs[p].user, module)
              THEN Respond(p, unauthorized("Unauthorized"), FALSE)
              ELSE procs' = [procs EXCEPT ![p].pc = "delete"]
    /\ UNCHANGED <<modules, lectureData, lectureLinks, nextLinkId, last>>

\* const deletedLecture = await db.lectureData.delete(...); send 200
deleteStep(p) ==
    /\ procs[p].pc = "delete"
    /\ \E throws \in BOOLEAN :
         IF throws
         THEN Caught(p, TRUE) /\ UNCHANGED <<lectureData, lectureLinks>>
         ELSE IF deleteThrows(lectureData, procs[p].lectureId)
         THEN Caught(p, FALSE) /\ UNCHANGED <<lectureData, lectureLinks>>
         ELSE LET op == Op(DelLecture, procs[p].lectureId, procs[p].lectureId, 0) IN
              /\ lectureData'  = applyLectureData(lectureData, op)
              /\ lectureLinks' = applyLectureLinks(lectureLinks, op)
              /\ procs' = [procs EXCEPT ![p].pc = "done", ![p].deleted = TRUE,
                              ![p].sent = Append(procs[p].sent,
                                                 send("Lecture has been deleted", 200))]
    /\ UNCHANGED <<modules, nextLinkId, last>>

Step(p) == authStep(p) \/ findLectureStep(p) \/ findModuleStep(p) \/ deleteStep(p)

NextConc == \E p \in Procs : Step(p)

SpecConc == InitConc /\ [][NextConc]_vars

\* every request in flight is resumed when the call it awaits settles
SpecConcFair == SpecConc /\ \A p \in Procs : WF_vars(Step(p))


\* ================================================================== claims
Mutating == {"updateLecture", "deleteLecture", "createLink", "updateLink", "deleteLink"}
Reads    == {"get", "getLinks"}

Answered(n)  == Len(last.sent) = 1 /\ last.sent[1].http = n
NonAdmin     == ~last.req.user.present \/ last.req.user.role # Admin
StoreWorks   == last.req.fault = 0
Unchanged    == /\ lectureData = last.pre.lectureData
                /\ lectureLinks = last.pre.lectureLinks
                /\ last.op = NoOp
Issued(call) == \E i \in 1..Len(last.calls) : last.calls[i] = call

\* the rows the request names, as they were when it arrived
TargetLecture == findLecture(last.pre.lectureData, last.req.lectureId)
TargetLink    == findLink(last.pre.lectureLinks, last.req.linkId)
TargetModule  == findModule(TargetLecture.moduleId)
\* the module that owns the link the request names
LinkModule    == findModule(findLecture(last.pre.lectureData, TargetLink.lectureId).moduleId)
SameYear(user, module) == user.present /\ module.present /\ user.yearId = module.yearId

\* C1: a mutating handler called by a caller that is not an Admin (null
\* included) answers 401, whatever the years, and issues no create, update
\* or delete call to the store.
C1_NonAdminMutationRefused ==
    (last.req.handler \in Mutating /\ NonAdmin)
        => /\ Answered(401)
           /\ \A c \in MutatingCalls : ~Issued(c)
           /\ Unchanged

\* C1 witness: a Student of the owning module's year is refused an update.
C1_Witness ==
    /\ last.req.handler = "updateLecture"
    /\ last.req.user.role = Student
    /\ TargetLecture.present
    /\ SameYear(last.req.user, TargetModule)
    /\ last.req.bodyOk
    /\ Answered(401)

C3_MissingModuleIs404 ==
    (/\ Issued(FindModule)
     /\ StoreWorks
     /\ TargetLecture.present
     /\ ~TargetModule.present)
        => Answered(404)

\* C4: updateLink and deleteLink write a link only when the module owning
\* that link (link -> lecture -> subject -> module) has the caller's year.
C4_LinkWriteWithinYear ==
    (last.req.handler \in {"updateLink", "deleteLink"} /\ last.op.kind \in {UpdLink, DelLink})
        => SameYear(last.req.user, LinkModule)

\* C5: in a mutating handler the role check comes first: a caller that is
\* not an Admin gets 401 with no store call issued at all, also when the
\* ids are invalid or name nothing.
C5_RoleCheckFirst ==
    (last.req.handler \in Mutating /\ NonAdmin)
        => Answered(401) /\ last.calls = <<>>

\* C5 witness: a Student asks to delete a link with no lectureId, or of a
\* lecture that is gone, and gets 401.
C5_Witness ==
    /\ last.req.handler = "deleteLink"
    /\ last.req.user.role = Student
    /\ (last.req.lectureId = 0 \/ ~TargetLecture.present)
    /\ ~TargetLink.present
    /\ Answered(401)

\* C6: every handler invocation ends with exactly one response and lets no
\* exception out; a failing store call gives 500, the not-found answers 404,
\* the unauthorized answers 401, and the body's status is the HTTP status.
NotFoundMessages == {"Lecture doesn't exist.", "Link doesn't exist."}
UnauthorizedMessages ==
    {"Unauthorized", "Unauthorized cannot update a lecture.",
     "Unauthorized cannot delete a lecture.", "Unauthorized cannot create a link.",
     "Unauthorized cannot update a link.", "Unauthorized cannot delete a link."}

C6_OneMatchingResponse ==
    (last # Idle)
        => /\ ~last.escaped
           /\ Len(last.sent) = 1
           /\ last.sent[1].status = last.sent[1].http
           /\ (~StoreWorks => last.sent[1].http = 500)
           /\ (last.sent[1].message \in NotFoundMessages => last.sent[1].http = 404)
           /\ (last.sent[1].message \in UnauthorizedMessages => last.sent[1].http = 401)

\* C6 witness: the delete call of deleteLecture throws and the answer is 500.
C6_Witness ==
    /\ last.req.handler = "deleteLecture"
    /\ last.req.fault = 3
    /\ Issued(DelLecture)
    /\ Answered(500)

\* C7: updateLecture by an Admin of the owning module's year, with a valid
\* lectureId of an existing lecture and a body that passes validation (and a
\* store that answers): that lecture, and nothing else, is updated; 200.
C7_AdminUpdateApplied ==
    (/\ last.req.handler = "updateLecture"
     /\ last.req.user.role = Admin
     /\ last.req.lectureId # 0
     /\ TargetLecture.present
     /\ SameYear(last.req.user, TargetModule)
     /\ last.req.bodyOk
     /\ StoreWorks)
        => /\ Answered(200)
           /\ lectureData = [last.pre.lectureData EXCEPT
                                ![last.req.lectureId].content = last.req.data]
           /\ lectureLinks = last.pre.lectureLinks

\* C7 witness: such an update changed the lecture's content.
C7_Witness ==
    /\ last.req.handler = "updateLecture"
    /\ last.req.user.role = Admin
    /\ SameYear(last.req.user, TargetModule)
    /\ TargetLecture.present
    /\ TargetLecture.content # last.req.data
    /\ Answered(200)
    /\ lectureData[last.req.lectureId].content = last.req.data

\* C8: get and getLinks never answer 200 to a caller that resolves to null.
C8_NullCallerNeverReads ==
    (last.req.handler \in Reads /\ ~last.req.user.present) => ~Answered(200)

\* C9: a handler invocation that does not answer 200 or 201 leaves lectures
\* and links as they were, and get and getLinks always do.
C9_OnlySuccessWrites ==
    (last # Idle)
        => /\ (~(Answered(200) \/ Answered(201)) => Unchanged)
           /\ (last.req.handler \in Reads => Unchanged)

\* C9 witness: the update call of updateLink throws; 500, nothing changed.
C9_Witness ==
    /\ last.req.handler = "updateLink"
    /\ Issued(UpdLink)
    /\ Answered(500)
    /\ Unchanged
    /\ TargetLink.present


\* the requests of Admins of lecture l's year that ask to delete lecture l
Contenders(l) ==
    {p \in Procs : /\ procs[p].lectureId = l
                   /\ procs[p].user.role = Admin
                   /\ SameYear(procs[p].user, findModule(ModuleOf(l)))}
Done(p)         == procs[p].pc = "done"
AnsweredBy(p, n) == Done(p) /\ Len(procs[p].sent) = 1 /\ procs[p].sent[1].http = n
AllDone         == \A p \in Procs : Done(p)

C10_AtMostOnce ==
    \A l \in LectureIds :
        LET C == Contenders(l) IN
        Cardinality(C) >= 2 =>
            /\ Cardinality({p \in C : procs[p].deleted}) <= 1
            /\ Cardinality({p \in C : AnsweredBy(p, 200)}) <= 1
            /\ \A p \in C : Done(p) =>
                   /\ ~procs[p].escaped
                   /\ AnsweredBy(p, 200) \/ AnsweredBy(p, 404) \/ AnsweredBy(p, 500)
                   /\ AnsweredBy(p, 200) <=> procs[p].deleted
            /\ ((\A p \in C : Done(p) /\ ~procs[p].spurious) =>
                   /\ Cardinality({p \in C : AnsweredBy(p, 200)}) = 1
                   /\ ~lectureData[l].present)

\* C10: of two or more deleteLecture requests of authorized Admins on one
\* existing lecture, interleaved in any way, at most one deletes it and
\* answers 200, the others answer 404 or 500, exactly one succeeds when no
\* store call fails for another reason, and every request is answered.
C10_ConcurrentDelete == [](C10_AtMostOnce) /\ <>[](AllDone)

\* C10 witness: two such requests both passed the lookup; one deleted the
\* lecture and answered 200, the other's delete call failed and it answered 500.
C10_Witness ==
    \E p, q \in Procs :
        /\ p # q
        /\ procs[p].lectureId = procs[q].lectureId
        /\ {p, q} \subseteq Contenders(procs[p].lectureId)
        /\ AnsweredBy(p, 200)
        /\ AnsweredBy(q, 500)
        /\ ~procs[q].spurious
        /\ ~procs[p].spurious

====
